---- MODULE Spec2Model ----
(***************************************************************************)
(* cirkit/backend/compiler.py: the rule registries, the bijective map of   *)
(* compiled circuits and the memoizing compile() of AbstractCompiler.      *)
(*                                                                         *)
(* Every method is an operator that returns a record: err is the exception *)
(* raised ("none" when the method returns), val / ret the returned value,  *)
(* and, for a method that mutates, the new value of the field it mutates.  *)
(* The Call_* actions are a client calling one public method of one        *)
(* compiler instance; `last` records that call and what it returned.       *)
(***************************************************************************)
EXTENDS Integers, Sequences, FiniteSets, TLC

\* Compiled circuits are objects compared by identity: object k is the k-th
\* one created.  At most MaxObjs are created in a behaviour.
MaxObjs == 2

\* err of a call that returns; None as a name (a circuit, a rule, a class).
\* None as a compiled object is 0.
NoErr == "none"
NoName == "None"

VARIABLES
    compiled_circuits,      \* self._compiled_circuits : CompiledCircuitsMap
    layers_registry,        \* self._layers_registry._rules
    parameters_registry,    \* self._parameters_registry._rules
    initializers_registry,  \* self._initializers_registry._rules
    nextObj,                \* identity of the next compiled object created
    registered,             \* history: pairs whose registration returned
    last,                   \* the last call a client made and its outcome
    hist,                   \* the compile call / successful registration before it
    backend,                \* the concrete subclass: how its compile_pipeline ends
    callers,                \* per caller: its position inside compile and its locals
    pipeline_runs,          \* history: compile_pipeline runs of the callers, per circuit
    interleaved             \* history: circuits two callers had both found uncompiled

vars == <<compiled_circuits, layers_registry, parameters_registry,
          initializers_registry, nextObj, registered, last, hist,
          backend, callers, pipeline_runs, interleaved>>

-----------------------------------------------------------------------------
\* Python values used by the methods

\* The classes that occur in annotations and as node types, each with its
\* direct base class.
ClassBase ==
    [object            |-> "object",
     AbstractCompiler  |-> "object",
     Layer             |-> "object",
     SumLayer          |-> "Layer",
     ProductLayer      |-> "Layer",
     ParameterNode     |-> "object",
     ConstantParameter |-> "ParameterNode",
     Initializer       |-> "object",
     NormalInitializer |-> "Initializer"]

Classes == DOMAIN ClassBase

RECURSIVE issubclass(_, _)
issubclass(cls, base) ==
    IF cls = base THEN TRUE
    ELSE IF cls = "object" THEN FALSE
    ELSE issubclass(ClassBase[cls], base)

\* func.__annotations__ of the rule functions a client registers: an ordered
\* dict, here the sequence of its (key, value) items in insertion order.
Annotations ==
    [sum_fn      |-> << <<"compiler", "AbstractCompiler">>, <<"sl", "SumLayer">>,
                        <<"return", "Any">> >>,
     sum_fn2     |-> << <<"compiler", "AbstractCompiler">>, <<"sl", "SumLayer">>,
                        <<"return", "Any">> >>,
     prod_fn     |-> << <<"compiler", "AbstractCompiler">>, <<"sl", "ProductLayer">>,
                        <<"return", "Any">> >>,
     layer_fn    |-> << <<"compiler", "AbstractCompiler">>, <<"sl", "Layer">>,
                        <<"return", "Any">> >>,
     param_fn    |-> << <<"compiler", "AbstractCompiler">>, <<"p", "ConstantParameter">>,
                        <<"return", "Any">> >>,
     init_fn     |-> << <<"compiler", "AbstractCompiler">>, <<"init", "NormalInitializer">>,
                        <<"return", "Any">> >>,
     swapped_fn  |-> << <<"sl", "SumLayer">>, <<"compiler", "AbstractCompiler">>,
                        <<"return", "Any">> >>,
     noret_fn    |-> << <<"compiler", "AbstractCompiler">>, <<"sl", "SumLayer">> >>,
     onlyret_fn  |-> << <<"return", "Any">> >>]

Funcs == DOMAIN Annotations

\* dict operations
dict_has(d, k) == \E i \in 1..Len(d) : d[i][1] = k
dict_del(d, k) == SelectSeq(d, LAMBDA item : item[1] # k)
dict_keys(d) == [i \in 1..Len(d) |-> d[i][1]]
dict_get(d, k) == d[CHOOSE i \in 1..Len(d) : d[i][1] = k][2]

-----------------------------------------------------------------------------
\* cirkit.utils.algorithms.BiMap: two dicts updated together by add, which
\* checks both directions before it mutates either.

BiMap_new == [lhs |-> <<>>, rhs |-> <<>>]

BiMap_has_left(bm, l) == l \in DOMAIN bm.lhs

BiMap_has_right(bm, r) == r \in DOMAIN bm.rhs

BiMap_get_left(bm, l) ==
    IF l \in DOMAIN bm.lhs
    THEN [err |-> NoErr, val |-> bm.lhs[l]]
    ELSE [err |-> "NotFoundError", val |-> 0]

BiMap_get_right(bm, r) ==
    IF r \in DOMAIN bm.rhs
    THEN [err |-> NoErr, val |-> bm.rhs[r]]
    ELSE [err |-> "NotFoundError", val |-> NoName]

BiMap_add(bm, l, r) ==
    IF BiMap_has_left(bm, l) \/ BiMap_has_right(bm, r)
    THEN [err |-> "AlreadyRegisteredError", bimap |-> bm]
    ELSE [err   |-> NoErr,
          bimap |-> [lhs |-> (l :> r) @@ bm.lhs, rhs |-> (r :> l) @@ bm.rhs]]

-----------------------------------------------------------------------------
\* class CompiledCircuitsMap: m is the instance, m.bimap its _bimap

CompiledCircuitsMap_init == [bimap |-> BiMap_new]

CompiledCircuitsMap_is_compiled(m, sc) == BiMap_has_left(m.bimap, sc)

CompiledCircuitsMap_has_symbolic(m, cc) == BiMap_has_right(m.bimap, cc)

CompiledCircuitsMap_get_compiled_circuit(m, sc) == BiMap_get_left(m.bimap, sc)

CompiledCircuitsMap_get_symbolic_circuit(m, cc) == BiMap_get_right(m.bimap, cc)

\* Mutant: the forward association is written without BiMap.add's checks.
CompiledCircuitsMap_register_forward_only(m, sc, cc) ==
    [err |-> NoErr, map |-> [m EXCEPT !.bimap.lhs = (sc :> cc) @@ m.bimap.lhs]]

\* Mutant: every registration starts a new map that holds the new pair only.
CompiledCircuitsMap_register_evicting(m, sc, cc) ==
    [err |-> NoErr,
     map |-> [m EXCEPT !.bimap = [lhs |-> (sc :> cc), rhs |-> (cc :> sc)]]]

CompiledCircuitsMap_register_compiled_circuit(m, sc, cc) ==
    LET a == BiMap_add(m.bimap, sc, cc)
    IN  [err |-> a.err, map |-> [m EXCEPT !.bimap = a.bimap]]

-----------------------------------------------------------------------------
\* The three registry classes.  Each method reads func.__annotations__:
\* `del ann["return"]` raises KeyError without a return annotation, and
\* `args[-1]` raises IndexError when no parameter is annotated.

CompilerLayerRegistry_validate_rule_function(func) ==
    LET ann == Annotations[func]
    IN  IF ~dict_has(ann, "return") THEN [err |-> "KeyError", val |-> FALSE]
        ELSE LET ann2 == dict_del(ann, "return")
                 args == dict_keys(ann2)
             IN  IF Len(args) = 0 THEN [err |-> "IndexError", val |-> FALSE]
                 ELSE [err |-> NoErr,
                       val |-> issubclass(dict_get(ann2, args[Len(args)]), "Layer")]

\* Mutant: the signature is the type of the first annotated parameter.
CompilerLayerRegistry_retrieve_signature_first(func) ==
    LET ann == Annotations[func]
    IN  IF ~dict_has(ann, "return") THEN [err |-> "KeyError", val |-> NoName]
        ELSE LET ann2 == dict_del(ann, "return")
                 args == dict_keys(ann2)
             IN  IF Len(args) = 0 THEN [err |-> "IndexError", val |-> NoName]
                 ELSE [err |-> NoErr, val |-> dict_get(ann2, args[1])]

CompilerLayerRegistry_retrieve_signature(func) ==
    LET ann == Annotations[func]
    IN  IF ~dict_has(ann, "return") THEN [err |-> "KeyError", val |-> NoName]
        ELSE LET ann2 == dict_del(ann, "return")
                 args == dict_keys(ann2)
             IN  IF Len(args) = 0 THEN [err |-> "IndexError", val |-> NoName]
                 ELSE [err |-> NoErr, val |-> dict_get(ann2, args[Len(args)])]

\* Mutant: a missing return annotation is tolerated and a rule without
\* annotated parameters is found invalid.
CompilerParameterRegistry_validate_tolerant(func) ==
    LET ann2 == dict_del(Annotations[func], "return")
        args == dict_keys(ann2)
    IN  IF Len(args) = 0 THEN [err |-> NoErr, val |-> FALSE]
        ELSE [err |-> NoErr,
              val |-> issubclass(dict_get(ann2, args[Len(args)]), "ParameterNode")]

CompilerParameterRegistry_validate_rule_function(func) ==
    LET ann == Annotations[func]
    IN  IF ~dict_has(ann, "return") THEN [err |-> "KeyError", val |-> FALSE]
        ELSE LET ann2 == dict_del(ann, "return")
                 args == dict_keys(ann2)
             IN  IF Len(args) = 0 THEN [err |-> "IndexError", val |-> FALSE]
                 ELSE [err |-> NoErr,
                       val |-> issubclass(dict_get(ann2, args[Len(args)]), "ParameterNode")]

CompilerParameterRegistry_retrieve_signature(func) ==
    LET ann == Annotations[func]
    IN  IF ~dict_has(ann, "return") THEN [err |-> "KeyError", val |-> NoName]
        ELSE LET ann2 == dict_del(ann, "return")
                 args == dict_keys(ann2)
             IN  IF Len(args) = 0 THEN [err |-> "IndexError", val |-> NoName]
                 ELSE [err |-> NoErr, val |-> dict_get(ann2, args[Len(args)])]

CompilerInitializerRegistry_validate_rule_function(func) ==
    LET ann == Annotations[func]
    IN  IF ~dict_has(ann, "return") THEN [err |-> "KeyError", val |-> FALSE]
        ELSE LET ann2 == dict_del(ann, "return")
                 args == dict_keys(ann2)
             IN  IF Len(args) = 0 THEN [err |-> "IndexError", val |-> FALSE]
                 ELSE [err |-> NoErr,
                       val |-> issubclass(dict_get(ann2, args[Len(args)]), "Initializer")]

CompilerInitializerRegistry_retrieve_signature(func) ==
    LET ann == Annotations[func]
    IN  IF ~dict_has(ann, "return") THEN [err |-> "KeyError", val |-> NoName]
        ELSE LET ann2 == dict_del(ann, "return")
                 args == dict_keys(ann2)
             IN  IF Len(args) = 0 THEN [err |-> "IndexError", val |-> NoName]
                 ELSE [err |-> NoErr, val |-> dict_get(ann2, args[Len(args)])]

\* cirkit.backend.registry.CompilerRegistry, the base class of the three:
\* rules is the signature -> rule table; valid and sign are the results of
\* the subclass's _validate_rule_function and _retrieve_signature on func.
CompilerRegistry_add_rule(rules, func, valid, sign) ==
    IF valid.err # NoErr THEN [err |-> valid.err, rules |-> rules]
    ELSE IF ~valid.val THEN [err |-> "InvalidRuleError", rules |-> rules]
    ELSE IF sign.err # NoErr THEN [err |-> sign.err, rules |-> rules]
    ELSE IF sign.val \in DOMAIN rules
         THEN [err |-> "DuplicateSignatureError", rules |-> rules]
    ELSE [err |-> NoErr, rules |-> (sign.val :> func) @@ rules]

CompilerRegistry_retrieve_rule(rules, signature) ==
    IF signature \in DOMAIN rules
    THEN [err |-> NoErr, val |-> rules[signature]]
    ELSE [err |-> "CompilationRuleNotFound", val |-> NoName]

-----------------------------------------------------------------------------
\* class AbstractCompiler: the methods, on the instance the variables hold

\* Mutant: the cache is never consulted.
is_compiled_never(sc) == FALSE

is_compiled(sc) == CompiledCircuitsMap_is_compiled(compiled_circuits, sc)

has_symbolic(cc) == CompiledCircuitsMap_has_symbolic(compiled_circuits, cc)

\* Mutant: a circuit that is not registered yields None instead of an error.
get_compiled_circuit_default(sc) ==
    IF is_compiled(sc)
    THEN CompiledCircuitsMap_get_compiled_circuit(compiled_circuits, sc)
    ELSE [err |-> NoErr, val |-> 0]

get_compiled_circuit(sc) ==
    CompiledCircuitsMap_get_compiled_circuit(compiled_circuits, sc)

get_symbolic_circuit(cc) ==
    CompiledCircuitsMap_get_symbolic_circuit(compiled_circuits, cc)

\* Mutant: both associations are written without checking either side.
register_compiled_circuit_unchecked(sc, cc) ==
    [err |-> NoErr,
     map |-> [compiled_circuits EXCEPT
                !.bimap.lhs = (sc :> cc) @@ compiled_circuits.bimap.lhs,
                !.bimap.rhs = (cc :> sc) @@ compiled_circuits.bimap.rhs]]

\* Mutant: the call is not passed on to the map.
register_compiled_circuit_dropped(sc, cc) ==
    [err |-> NoErr, map |-> compiled_circuits]

register_compiled_circuit(sc, cc) ==
    CompiledCircuitsMap_register_compiled_circuit(compiled_circuits, sc, cc)

\* Mutant: a valid rule replaces the rule its signature already has.
add_layer_rule_overwrite(func) ==
    LET valid == CompilerLayerRegistry_validate_rule_function(func)
        sign == CompilerLayerRegistry_retrieve_signature(func)
    IN  IF valid.err = NoErr /\ valid.val /\ sign.err = NoErr
        THEN [err |-> NoErr, rules |-> (sign.val :> func) @@ layers_registry]
        ELSE CompilerRegistry_add_rule(layers_registry, func, valid, sign)

add_layer_rule(func) ==
    CompilerRegistry_add_rule(layers_registry, func,
        CompilerLayerRegistry_validate_rule_function(func),
        CompilerLayerRegistry_retrieve_signature(func))

add_parameter_rule(func) ==
    CompilerRegistry_add_rule(parameters_registry, func,
        CompilerParameterRegistry_validate_rule_function(func),
        CompilerParameterRegistry_retrieve_signature(func))

add_initializer_rule(func) ==
    CompilerRegistry_add_rule(initializers_registry, func,
        CompilerInitializerRegistry_validate_rule_function(func),
        CompilerInitializerRegistry_retrieve_signature(func))

\* Mutant: a class without a rule of its own falls back to the rule of a
\* class it derives from.
retrieve_layer_rule_polymorphic(signature) ==
    LET supers == {s \in DOMAIN layers_registry : issubclass(signature, s)}
    IN  IF signature \in DOMAIN layers_registry
        THEN [err |-> NoErr, val |-> layers_registry[signature]]
        ELSE IF supers # {}
        THEN [err |-> NoErr, val |-> layers_registry[CHOOSE s \in supers : TRUE]]
        ELSE [err |-> "CompilationRuleNotFound", val |-> NoName]

retrieve_layer_rule(signature) ==
    CompilerRegistry_retrieve_rule(layers_registry, signature)

retrieve_parameter_rule(signature) ==
    CompilerRegistry_retrieve_rule(parameters_registry, signature)

retrieve_initializer_rule(signature) ==
    CompilerRegistry_retrieve_rule(initializers_registry, signature)

-----------------------------------------------------------------------------
\* Symbolic circuits handed to the compiler: each an immutable graph of typed
\* nodes, a node naming the nodes it takes as inputs.
\*   s1 = ProductLayer(SumLayer(leaf), SumLayer(leaf))
\*   s2 = SumLayer with a ConstantParameter initialised by a NormalInitializer
CircuitNodes ==
    [s1 |-> << [type |-> "ProductLayer", inputs |-> {2, 3}],
               [type |-> "SumLayer", inputs |-> {}],
               [type |-> "SumLayer", inputs |-> {}] >>,
     s2 |-> << [type |-> "SumLayer", inputs |-> {2}],
               [type |-> "ConstantParameter", inputs |-> {3}],
               [type |-> "NormalInitializer", inputs |-> {}] >>]

Circuits == DOMAIN CircuitNodes

\* The pipeline's visiting order: every node after all of its inputs.
RECURSIVE topological_ordering(_, _)
topological_ordering(nodes, visited) ==
    IF Len(visited) = Len(nodes) THEN visited
    ELSE LET done == {visited[i] : i \in 1..Len(visited)}
             ready == {n \in (1..Len(nodes)) \ done : nodes[n].inputs \subseteq done}
             n == CHOOSE x \in ready : \A y \in ready : x <= y
         IN  topological_ordering(nodes, Append(visited, n))

\* A node is dispatched to the registry of its category, by its exact type.
retrieve_node_rule(type) ==
    IF issubclass(type, "Layer") THEN retrieve_layer_rule(type)
    ELSE IF issubclass(type, "ParameterNode") THEN retrieve_parameter_rule(type)
    ELSE retrieve_initializer_rule(type)

\* The visit of the nodes order[i..]: calls are the rule invocations made so
\* far, in order; a rule that is missing ends the visit with its error.
RECURSIVE visit_nodes(_, _, _, _)
visit_nodes(nodes, order, i, calls) ==
    IF i > Len(order)
    THEN [err |-> NoErr, retrievals |-> Len(order), calls |-> calls]
    ELSE LET r == retrieve_node_rule(nodes[order[i]].type)
         IN  IF r.err # NoErr
             THEN [err |-> r.err, retrievals |-> i, calls |-> calls]
             ELSE visit_nodes(nodes, order, i + 1,
                              Append(calls, [node |-> order[i], rule |-> r.val]))

\* compile_pipeline of a concrete backend that leaves the registration to
\* its caller: compiles every node by its rule, assembles a new compiled
\* circuit and returns it.
compile_pipeline_bare(sc) ==
    LET nodes == CircuitNodes[sc]
        v == visit_nodes(nodes, topological_ordering(nodes, <<>>), 1, <<>>)
    IN  [err |-> v.err, ret |-> IF v.err = NoErr THEN nextObj ELSE 0,
         map |-> compiled_circuits,
         created |-> IF v.err = NoErr THEN 1 ELSE 0,
         registrations |-> {}, pipeline |-> 1,
         retrievals |-> v.retrievals, calls |-> v.calls]

\* compile_pipeline of a concrete backend: compiles every node by its rule,
\* assembles a new compiled circuit, registers it and returns it.
compile_pipeline_registering(sc) ==
    LET nodes == CircuitNodes[sc]
        v == visit_nodes(nodes, topological_ordering(nodes, <<>>), 1, <<>>)
        cc == nextObj
        r == register_compiled_circuit(sc, cc)
        failed(e) == [err |-> e, ret |-> 0, map |-> compiled_circuits,
                      created |-> 0, registrations |-> {}, pipeline |-> 1,
                      retrievals |-> v.retrievals, calls |-> v.calls]
    IN  IF v.err # NoErr THEN failed(v.err)
        ELSE IF r.err # NoErr THEN [failed(r.err) EXCEPT !.created = 1]
        ELSE [err |-> NoErr, ret |-> cc, map |-> r.map,
              created |-> 1, registrations |-> {<<sc, cc>>}, pipeline |-> 1,
              retrievals |-> v.retrievals, calls |-> v.calls]

\* The abstract method, resolved on the instance's class.
compile_pipeline(sc) ==
    IF backend = "registering" THEN compile_pipeline_registering(sc)
    ELSE compile_pipeline_bare(sc)

\* Mutant: no memoization, the pipeline runs on every call.
compile_no_memo(sc) == compile_pipeline(sc)

\* Mutant: a pipeline error is swallowed and None is returned.
compile_swallow(sc) ==
    IF is_compiled(sc)
    THEN LET g == get_compiled_circuit(sc)
         IN  [err |-> g.err, ret |-> g.val, map |-> compiled_circuits,
              created |-> 0, registrations |-> {}, pipeline |-> 0,
              retrievals |-> 0, calls |-> <<>>]
    ELSE [compile_pipeline(sc) EXCEPT !.err = NoErr]

\* Mutant: a failed pipeline run leaves a None entry for the circuit.
compile_pollute(sc) ==
    IF is_compiled(sc)
    THEN LET g == get_compiled_circuit(sc)
         IN  [err |-> g.err, ret |-> g.val, map |-> compiled_circuits,
              created |-> 0, registrations |-> {}, pipeline |-> 0,
              retrievals |-> 0, calls |-> <<>>]
    ELSE LET p == compile_pipeline(sc)
         IN  IF p.err = NoErr THEN p
             ELSE [p EXCEPT !.map = register_compiled_circuit_unchecked(sc, 0).map]

\* Mutant: compile registers what the pipeline returned.
compile_registering(sc) ==
    IF is_compiled(sc)
    THEN LET g == get_compiled_circuit(sc)
         IN  [err |-> g.err, ret |-> g.val, map |-> compiled_circuits,
              created |-> 0, registrations |-> {}, pipeline |-> 0,
              retrievals |-> 0, calls |-> <<>>]
    ELSE LET p == compile_pipeline(sc)
         IN  IF p.err = NoErr /\ p.registrations = {}
             THEN [p EXCEPT !.map = register_compiled_circuit(sc, p.ret).map,
                            !.registrations = {<<sc, p.ret>>}]
             ELSE p

\* Mutant: on a hit the nodes are compiled again before the cached circuit
\* is returned.
compile_revisit(sc) ==
    IF is_compiled(sc)
    THEN LET g == get_compiled_circuit(sc)
             nodes == CircuitNodes[sc]
             v == visit_nodes(nodes, topological_ordering(nodes, <<>>), 1, <<>>)
         IN  [err |-> g.err, ret |-> g.val, map |-> compiled_circuits,
              created |-> 0, registrations |-> {}, pipeline |-> 0,
              retrievals |-> v.retrievals, calls |-> v.calls]
    ELSE compile_pipeline(sc)

compile(sc) ==
    IF is_compiled(sc)
    THEN LET g == get_compiled_circuit(sc)
         IN  [err |-> g.err, ret |-> g.val, map |-> compiled_circuits,
              created |-> 0, registrations |-> {}, pipeline |-> 0,
              retrievals |-> 0, calls |-> <<>>]
    ELSE compile_pipeline(sc)

-----------------------------------------------------------------------------
\* The client's calls

\* A call that has not been made; the Call_* actions fill in their own fields.
NoCall ==
    [op |-> "none", sc |-> NoName, cc |-> 0, func |-> NoName, sig |-> NoName,
     err |-> NoErr, ret_cc |-> 0, ret_name |-> NoName,
     pipeline |-> 0, retrievals |-> 0, calls |-> <<>>]

\* hist is the most recent compile call or successful registration made
\* before the call that `last` records.
IsCacheEvent(call) ==
    \/ call.op = "compile"
    \/ call.op = "register_compiled_circuit" /\ call.err = NoErr

CacheEvent(call) ==
    [op |-> call.op, sc |-> call.sc, err |-> call.err,
     pipeline |-> call.pipeline, ret_cc |-> call.ret_cc]

Record(call) ==
    /\ last' = call
    /\ hist' = IF IsCacheEvent(last) THEN CacheEvent(last) ELSE hist

\* The callers of the instance's compile, and a caller that is not inside it:
\* sc is the argument of its call, cc the circuit its pipeline built.
Callers == {"A", "B"}
Idle == [pc |-> "idle", sc |-> NoName, cc |-> 0, err |-> NoErr, ret |-> 0]

Init ==
    /\ compiled_circuits = CompiledCircuitsMap_init
    /\ layers_registry = <<>>
    /\ parameters_registry = <<>>
    /\ initializers_registry = <<>>
    /\ nextObj = 1
    /\ registered = {}
    /\ last = NoCall
    /\ hist = CacheEvent(NoCall)
    /\ backend = "registering"
    /\ callers = [t \in Callers |-> Idle]
    /\ pipeline_runs = [sc \in Circuits |-> 0]
    /\ interleaved = {}

Call_compile(sc) ==
    LET c == compile(sc)
    IN  /\ nextObj + c.created <= MaxObjs + 1
        /\ compiled_circuits' = c.map
        /\ nextObj' = nextObj + c.created
        /\ registered' = registered \cup c.registrations
        /\ Record([NoCall EXCEPT !.op = "compile", !.sc = sc, !.err = c.err,
                                 !.ret_cc = c.ret, !.pipeline = c.pipeline,
                                 !.retrievals = c.retrievals, !.calls = c.calls])
        /\ UNCHANGED <<layers_registry, parameters_registry, initializers_registry>>
        /\ UNCHANGED <<backend, callers, pipeline_runs, interleaved>>

\* The client registers a compiled circuit itself: one that exists already,
\* or one it has just created (cc = nextObj).
Call_register_compiled_circuit(sc, cc) ==
    LET r == register_compiled_circuit(sc, cc)
        created == IF cc = nextObj /\ r.err = NoErr THEN 1 ELSE 0
    IN  /\ cc <= nextObj
        /\ compiled_circuits' = r.map
        /\ nextObj' = nextObj + created
        /\ registered' = IF r.err = NoErr THEN registered \cup {<<sc, cc>>}
                         ELSE registered
        /\ Record([NoCall EXCEPT !.op = "register_compiled_circuit", !.sc = sc,
                                 !.cc = cc, !.err = r.err])
        /\ UNCHANGED <<layers_registry, parameters_registry, initializers_registry>>
        /\ UNCHANGED <<backend, callers, pipeline_runs, interleaved>>

Call_get_compiled_circuit(sc) ==
    LET g == get_compiled_circuit(sc)
    IN  /\ Record([NoCall EXCEPT !.op = "get_compiled_circuit", !.sc = sc,
                                 !.err = g.err, !.ret_cc = g.val])
        /\ UNCHANGED <<compiled_circuits, layers_registry, parameters_registry,
                       initializers_registry, nextObj, registered>>
        /\ UNCHANGED <<backend, callers, pipeline_runs, interleaved>>

Call_get_symbolic_circuit(cc) ==
    LET g == get_symbolic_circuit(cc)
    IN  /\ Record([NoCall EXCEPT !.op = "get_symbolic_circuit", !.cc = cc,
                                 !.err = g.err, !.ret_name = g.val])
        /\ UNCHANGED <<compiled_circuits, layers_registry, parameters_registry,
                       initializers_registry, nextObj, registered>>
        /\ UNCHANGED <<backend, callers, pipeline_runs, interleaved>>

Call_add_layer_rule(func) ==
    LET a == add_layer_rule(func)
    IN  /\ layers_registry' = a.rules
        /\ Record([NoCall EXCEPT !.op = "add_layer_rule", !.func = func,
                                 !.err = a.err])
        /\ UNCHANGED <<compiled_circuits, parameters_registry,
                       initializers_registry, nextObj, registered>>
        /\ UNCHANGED <<backend, callers, pipeline_runs, interleaved>>

\* Mutant: add_parameter_rule passes the rule to the layers registry.
Call_add_parameter_rule_to_layers(func) ==
    LET a == add_layer_rule(func)
    IN  /\ layers_registry' = a.rules
        /\ Record([NoCall EXCEPT !.op = "add_parameter_rule", !.func = func,
                                 !.err = a.err])
        /\ UNCHANGED <<compiled_circuits, parameters_registry,
                       initializers_registry, nextObj, registered>>
        /\ UNCHANGED <<backend, callers, pipeline_runs, interleaved>>

Call_add_parameter_rule(func) ==
    LET a == add_parameter_rule(func)
    IN  /\ parameters_registry' = a.rules
        /\ Record([NoCall EXCEPT !.op = "add_parameter_rule", !.func = func,
                                 !.err = a.err])
        /\ UNCHANGED <<compiled_circuits, layers_registry,
                       initializers_registry, nextObj, registered>>
        /\ UNCHANGED <<backend, callers, pipeline_runs, interleaved>>

Call_add_initializer_rule(func) ==
    LET a == add_initializer_rule(func)
    IN  /\ initializers_registry' = a.rules
        /\ Record([NoCall EXCEPT !.op = "add_initializer_rule", !.func = func,
                                 !.err = a.err])
        /\ UNCHANGED <<compiled_circuits, layers_registry,
                       parameters_registry, nextObj, registered>>
        /\ UNCHANGED <<backend, callers, pipeline_runs, interleaved>>

Call_retrieve_layer_rule(signature) ==
    LET r == retrieve_layer_rule(signature)
    IN  /\ Record([NoCall EXCEPT !.op = "retrieve_layer_rule", !.sig = signature,
                                 !.err = r.err, !.ret_name = r.val])
        /\ UNCHANGED <<compiled_circuits, layers_registry, parameters_registry,
                       initializers_registry, nextObj, registered>>
        /\ UNCHANGED <<backend, callers, pipeline_runs, interleaved>>

Call_retrieve_parameter_rule(signature) ==
    LET r == retrieve_parameter_rule(signature)
    IN  /\ Record([NoCall EXCEPT !.op = "retrieve_parameter_rule", !.sig = signature,
                                 !.err = r.err, !.ret_name = r.val])
        /\ UNCHANGED <<compiled_circuits, layers_registry, parameters_registry,
                       initializers_registry, nextObj, registered>>
        /\ UNCHANGED <<backend, callers, pipeline_runs, interleaved>>

Call_retrieve_initializer_rule(signature) ==
    LET r == retrieve_initializer_rule(signature)
    IN  /\ Record([NoCall EXCEPT !.op = "retrieve_initializer_rule", !.sig = signature,
                                 !.err = r.err, !.ret_name = r.val])
        /\ UNCHANGED <<compiled_circuits, layers_registry, parameters_registry,
                       initializers_registry, nextObj, registered>>
        /\ UNCHANGED <<backend, callers, pipeline_runs, interleaved>>

\* The classes a client asks a rule for.
Signatures == Classes \ {"object", "AbstractCompiler"}

Next ==
    \/ \E sc \in Circuits : Call_compile(sc)
    \/ \E sc \in Circuits, cc \in 1..MaxObjs : Call_register_compiled_circuit(sc, cc)
    \/ \E sc \in Circuits : Call_get_compiled_circuit(sc)
    \/ \E cc \in 1..MaxObjs : Call_get_symbolic_circuit(cc)
    \/ \E func \in Funcs : Call_add_layer_rule(func)
    \/ \E func \in Funcs : Call_add_parameter_rule(func)
    \/ \E func \in Funcs : Call_add_initializer_rule(func)
    \/ \E signature \in Signatures : Call_retrieve_layer_rule(signature)
    \/ \E signature \in Signatures : Call_retrieve_parameter_rule(signature)
    \/ \E signature \in Signatures : Call_retrieve_initializer_rule(signature)

Spec == Init /\ [][Next]_vars

\* The same instance with a backend whose pipeline does not register.
InitBare ==
    /\ compiled_circuits = CompiledCircuitsMap_init
    /\ layers_registry = <<>>
    /\ parameters_registry = <<>>
    /\ initializers_registry = <<>>
    /\ nextObj = 1
    /\ registered = {}
    /\ last = NoCall
    /\ hist = CacheEvent(NoCall)
    /\ backend = "bare"
    /\ callers = [t \in Callers |-> Idle]
    /\ pipeline_runs = [sc \in Circuits |-> 0]
    /\ interleaved = {}

SpecBare == InitBare /\ [][Next]_vars

-----------------------------------------------------------------------------
\* Callers that share the instance without a lock.  A caller's call of
\* compile is the sequence of its steps, and the steps of two callers
\* interleave: pc names the line of compile the caller is to execute next.

Goto(t, pc, cc, err, ret) ==
    callers' = [callers EXCEPT ![t] = [pc |-> pc, sc |-> callers[t].sc,
                                       cc |-> cc, err |-> err, ret |-> ret]]

\* The callers that have found sc uncompiled and not yet registered for it.
PastCheck(sc) ==
    {u \in Callers : callers[u].sc = sc /\ callers[u].pc \in {"l209", "register"}}

\* t calls compile(sc).
Race_compile(t, sc) ==
    /\ callers[t].pc = "idle"
    /\ callers' = [callers EXCEPT ![t] = [Idle EXCEPT !.pc = "l207", !.sc = sc]]
    /\ UNCHANGED <<compiled_circuits, layers_registry, parameters_registry,
                   initializers_registry, nextObj, registered, last, hist,
                   backend, pipeline_runs, interleaved>>

\* line 207: if self.is_compiled(sc)
Race_is_compiled(t) ==
    LET sc == callers[t].sc
    IN  /\ callers[t].pc = "l207"
        /\ IF is_compiled(sc)
           THEN /\ Goto(t, "l208", 0, NoErr, 0)
                /\ UNCHANGED interleaved
           ELSE /\ Goto(t, "l209", 0, NoErr, 0)
                /\ interleaved' = IF PastCheck(sc) # {}
                                  THEN interleaved \cup {sc} ELSE interleaved
        /\ UNCHANGED <<compiled_circuits, layers_registry, parameters_registry,
                       initializers_registry, nextObj, registered, last, hist,
                       backend, pipeline_runs>>

\* line 208: return self.get_compiled_circuit(sc)
Race_get_compiled_circuit(t) ==
    LET g == get_compiled_circuit(callers[t].sc)
    IN  /\ callers[t].pc = "l208"
        /\ Goto(t, "done", 0, g.err, g.val)
        /\ UNCHANGED <<compiled_circuits, layers_registry, parameters_registry,
                       initializers_registry, nextObj, registered, last, hist,
                       backend, pipeline_runs, interleaved>>

\* line 209, the pipeline up to its registration: the nodes are compiled by
\* their rules and the new compiled circuit is assembled.
Race_compile_pipeline(t) ==
    LET sc == callers[t].sc
        nodes == CircuitNodes[sc]
        v == visit_nodes(nodes, topological_ordering(nodes, <<>>), 1, <<>>)
    IN  /\ callers[t].pc = "l209"
        /\ nextObj <= MaxObjs
        /\ pipeline_runs' = [pipeline_runs EXCEPT ![sc] = @ + 1]
        /\ IF v.err # NoErr
           THEN Goto(t, "done", 0, v.err, 0) /\ UNCHANGED nextObj
           ELSE Goto(t, "register", nextObj, NoErr, 0) /\ nextObj' = nextObj + 1
        /\ UNCHANGED <<compiled_circuits, layers_registry, parameters_registry,
                       initializers_registry, registered, last, hist,
                       backend, interleaved>>

\* line 209, the end of the pipeline: it registers its circuit, and compile
\* returns it or lets the error of the registration through.
Race_register_compiled_circuit(t) ==
    LET sc == callers[t].sc
        cc == callers[t].cc
        r == register_compiled_circuit(sc, cc)
    IN  /\ callers[t].pc = "register"
        /\ compiled_circuits' = r.map
        /\ registered' = IF r.err = NoErr THEN registered \cup {<<sc, cc>>}
                         ELSE registered
        /\ Goto(t, "done", cc, r.err, IF r.err = NoErr THEN cc ELSE 0)
        /\ UNCHANGED <<layers_registry, parameters_registry,
                       initializers_registry, nextObj, last, hist,
                       backend, pipeline_runs, interleaved>>

\* t is back from compile, with the circuit or the error.
Race_return(t) ==
    /\ callers[t].pc = "done"
    /\ callers' = [callers EXCEPT ![t] = Idle]
    /\ UNCHANGED <<compiled_circuits, layers_registry, parameters_registry,
                   initializers_registry, nextObj, registered, last, hist,
                   backend, pipeline_runs, interleaved>>

\* The instance after its setup: every node type of the circuits has a rule.
InitRace ==
    /\ compiled_circuits = CompiledCircuitsMap_init
    /\ layers_registry = ("SumLayer" :> "sum_fn") @@ ("ProductLayer" :> "prod_fn")
    /\ parameters_registry = ("ConstantParameter" :> "param_fn")
    /\ initializers_registry = ("NormalInitializer" :> "init_fn")
    /\ nextObj = 1
    /\ registered = {}
    /\ last = NoCall
    /\ hist = CacheEvent(NoCall)
    /\ backend = "registering"
    /\ callers = [t \in Callers |-> Idle]
    /\ pipeline_runs = [sc \in Circuits |-> 0]
    /\ interleaved = {}

NextRace ==
    \/ \E t \in Callers, sc \in Circuits : Race_compile(t, sc)
    \/ \E t \in Callers : Race_is_compiled(t)
    \/ \E t \in Callers : Race_get_compiled_circuit(t)
    \/ \E t \in Callers : Race_compile_pipeline(t)
    \/ \E t \in Callers : Race_register_compiled_circuit(t)
    \/ \E t \in Callers : Race_return(t)

SpecRace == InitRace /\ [][NextRace]_vars

-----------------------------------------------------------------------------
\* Properties

\* What the history says: the circuits and objects of the pairs registered.
RegisteredSymbolic == {p[1] : p \in registered}
RegisteredCompiled == {p[2] : p \in registered}
MapSize(m) == Cardinality(DOMAIN m.bimap.lhs)

\* C1 (memoization idempotence): when compile(s) missed the cache, ran the
\* pipeline and returned, and the next compile call is compile(s) again, the
\* second call returns without error the very object the first returned and
\* does not run the pipeline: the pipeline ran exactly once over the two calls.
C1_MemoizationIdempotence ==
    (/\ last.op = "compile"
     /\ hist.op = "compile"
     /\ hist.sc = last.sc
     /\ hist.err = NoErr
     /\ hist.pipeline = 1)
    => /\ last.err = NoErr
       /\ last.ret_cc = hist.ret_cc
       /\ last.pipeline = 0
       /\ hist.pipeline + last.pipeline = 1

C1_Witness ==
    /\ last.op = "compile" /\ last.err = NoErr /\ last.pipeline = 0
    /\ hist.op = "compile" /\ hist.sc = last.sc
    /\ hist.err = NoErr /\ hist.pipeline = 1
    /\ last.ret_cc = hist.ret_cc /\ last.ret_cc # 0

\* C2: a compile(s) that missed the cache and returned c leaves s registered
\* with c, and the map holds exactly one entry more, the pair (s, c), than
\* before the call.
C2_Step ==
    \A sc \in Circuits, cc \in 0..MaxObjs :
        (/\ last'.op = "compile" /\ last'.sc = sc /\ last'.ret_cc = cc
         /\ last'.pipeline = 1 /\ last'.err = NoErr)
        => /\ is_compiled(sc)'
           /\ get_compiled_circuit(sc)' = [err |-> NoErr, val |-> cc]
           /\ has_symbolic(cc)'
           /\ get_symbolic_circuit(cc)' = [err |-> NoErr, val |-> sc]
           /\ MapSize(compiled_circuits') = MapSize(compiled_circuits) + 1
           /\ Cardinality(DOMAIN compiled_circuits'.bimap.rhs)
                = Cardinality(DOMAIN compiled_circuits.bimap.rhs) + 1
           /\ registered' = registered \cup {<<sc, cc>>}
           /\ <<sc, cc>> \notin registered

C2_MissRegistersOneEntry == [][C2_Step]_vars

C2_Witness ==
    /\ last.op = "compile" /\ last.pipeline = 1 /\ last.err = NoErr
    /\ is_compiled(last.sc)
    /\ MapSize(compiled_circuits) = 2

\* C3 (cache-hit short circuit): a compile(s) called while s is registered
\* returns the registered compiled circuit, runs no pipeline, retrieves and
\* invokes no rule, and changes neither the map nor any registry.
C3_Step ==
    \A sc \in Circuits :
        (last'.op = "compile" /\ last'.sc = sc /\ sc \in RegisteredSymbolic)
        => /\ last'.err = NoErr
           /\ <<sc, last'.ret_cc>> \in registered
           /\ last'.pipeline = 0
           /\ last'.retrievals = 0
           /\ last'.calls = <<>>
           /\ UNCHANGED <<compiled_circuits, layers_registry,
                          parameters_registry, initializers_registry>>

C3_CacheHitShortCircuit == [][C3_Step]_vars

C3_Witness ==
    /\ last.op = "compile" /\ last.pipeline = 0 /\ last.err = NoErr
    /\ hist.op = "register_compiled_circuit" /\ hist.sc = last.sc
    /\ <<last.sc, last.ret_cc>> \in registered

\* C4 (failure does not pollute the cache): when compile(s) misses and the
\* pipeline raises, compile raises that same error after a single pipeline
\* run, the map is exactly as before and s is still not compiled; and when
\* the next compile call is compile(s) again (nothing registered in between),
\* it runs the pipeline again, starting with the first rule retrieval.
C4_Step ==
    \A sc \in Circuits :
        (/\ last'.op = "compile" /\ last'.sc = sc
         /\ sc \notin RegisteredSymbolic
         /\ compile_pipeline(sc).err # NoErr)
        => /\ last'.err = compile_pipeline(sc).err
           /\ last'.ret_cc = 0
           /\ last'.pipeline = 1
           /\ compiled_circuits' = compiled_circuits
           /\ registered' = registered
           /\ ~is_compiled(sc)'

C4_Retry ==
    (/\ last.op = "compile"
     /\ hist.op = "compile"
     /\ hist.sc = last.sc
     /\ hist.err # NoErr)
    => /\ hist.pipeline = 1
       /\ last.pipeline = 1
       /\ last.retrievals >= 1

C4_FailureDoesNotPolluteCache == []C4_Retry /\ [][C4_Step]_vars

C4_Witness ==
    /\ last.op = "compile" /\ last.err = NoErr /\ last.pipeline = 1
    /\ hist.op = "compile" /\ hist.sc = last.sc
    /\ hist.err = "CompilationRuleNotFound" /\ hist.pipeline = 1
    /\ is_compiled(last.sc)

\* C5 (bijection invariant): every registered pair (s, c) is retrievable in
\* both directions; is_compiled holds exactly for the symbolic circuits of
\* the registered pairs and has_symbolic exactly for their compiled circuits;
\* two registered pairs that share one side are the same pair.
C5_BijectionInvariant ==
    /\ \A p \in registered :
          /\ get_compiled_circuit(p[1]) = [err |-> NoErr, val |-> p[2]]
          /\ get_symbolic_circuit(p[2]) = [err |-> NoErr, val |-> p[1]]
    /\ \A sc \in Circuits : is_compiled(sc) <=> sc \in RegisteredSymbolic
    /\ \A cc \in 1..MaxObjs : has_symbolic(cc) <=> cc \in RegisteredCompiled
    /\ \A p, q \in registered : (p[1] = q[1] \/ p[2] = q[2]) => p = q

C5_Witness ==
    /\ Cardinality(registered) = 2
    /\ \E p \in registered : p[1] = "s1" /\ p[2] = 2

\* C6: register_compiled_circuit(s, c) raises AlreadyRegisteredError when s
\* or c already belongs to a registered pair, and then adds neither
\* association and leaves every registered pair retrievable; otherwise it
\* returns and both the forward and the reverse association are present.
C6_Step ==
    \A sc \in Circuits, cc \in 1..MaxObjs :
        (last'.op = "register_compiled_circuit" /\ last'.sc = sc /\ last'.cc = cc)
        => IF sc \in RegisteredSymbolic \/ cc \in RegisteredCompiled
           THEN /\ last'.err = "AlreadyRegisteredError"
                /\ compiled_circuits' = compiled_circuits
                /\ registered' = registered
                /\ \A p \in registered :
                      /\ get_compiled_circuit(p[1])' = [err |-> NoErr, val |-> p[2]]
                      /\ get_symbolic_circuit(p[2])' = [err |-> NoErr, val |-> p[1]]
           ELSE /\ last'.err = NoErr
                /\ get_compiled_circuit(sc)' = [err |-> NoErr, val |-> cc]
                /\ get_symbolic_circuit(cc)' = [err |-> NoErr, val |-> sc]
                /\ registered' = registered \cup {<<sc, cc>>}

C6_RegisterAllOrNothing == [][C6_Step]_vars

C6_Witness ==
    /\ last.op = "register_compiled_circuit"
    /\ last.err = "AlreadyRegisteredError"
    /\ last.sc \notin RegisteredSymbolic
    /\ last.cc \in RegisteredCompiled

\* What a rule function declares: its typed parameters (the annotations but
\* the return annotation, in order) and the type of the last of them.
HasReturnAnnotation(func) == \E i \in 1..Len(Annotations[func]) : Annotations[func][i][1] = "return"
TypedParameters(func) == SelectSeq(Annotations[func], LAMBDA a : a[1] # "return")
HasNodeParameter(func) == Len(TypedParameters(func)) > 0
NodeParameterType(func) == TypedParameters(func)[Len(TypedParameters(func))][2]

\* The categories: the operations, the registry and the base class of each.
Categories == {"layer", "parameter", "initializer"}
AddOp(cat) == "add_" \o cat \o "_rule"
RetrieveOp(cat) == "retrieve_" \o cat \o "_rule"
RegistryOf(cat) ==
    CASE cat = "layer" -> layers_registry
      [] cat = "parameter" -> parameters_registry
      [] cat = "initializer" -> initializers_registry
BaseOf(cat) ==
    CASE cat = "layer" -> "Layer"
      [] cat = "parameter" -> "ParameterNode"
      [] cat = "initializer" -> "Initializer"
RulesIn(rules) == {rules[s] : s \in DOMAIN rules}

\* C7 (exact-type dispatch): retrieve_*_rule(T) returns a rule of its
\* registry that is declared for exactly T when the registry holds one, and
\* raises CompilationRuleNotFound, returning nothing, when it holds none,
\* whatever rules it holds for the classes T derives from.
C7_ExactTypeDispatch ==
    \A cat \in Categories :
        last.op = RetrieveOp(cat)
        => IF \E f \in RulesIn(RegistryOf(cat)) : NodeParameterType(f) = last.sig
           THEN /\ last.err = NoErr
                /\ last.ret_name \in RulesIn(RegistryOf(cat))
                /\ NodeParameterType(last.ret_name) = last.sig
           ELSE /\ last.err = "CompilationRuleNotFound"
                /\ last.ret_name = NoName

C7_Witness ==
    /\ last.op = "retrieve_layer_rule" /\ last.sig = "SumLayer"
    /\ last.err = NoErr /\ last.ret_name = "sum_fn"
    /\ "Layer" \in DOMAIN layers_registry
    /\ layers_registry["Layer"] = "layer_fn"

\* C8 as stated: add_*_rule with a rule whose last typed parameter is not a
\* subclass of the category's base class raises InvalidRuleError and leaves
\* the registry as it was.
C8_Step ==
    \A cat \in Categories, func \in Funcs :
        (/\ last'.op = AddOp(cat) /\ last'.func = func
         /\ HasNodeParameter(func)
         /\ ~issubclass(NodeParameterType(func), BaseOf(cat)))
        => /\ last'.err = "InvalidRuleError"
           /\ RegistryOf(cat)' = RegistryOf(cat)

C8_InvalidRuleRejected == [][C8_Step]_vars

\* C9 (duplicate signatures are rejected): add_*_rule with a valid rule whose
\* signature already has a rule in that registry raises
\* DuplicateSignatureError, and the registry still returns the rule that was
\* registered first for that signature.
C9_Step ==
    \A cat \in Categories, func \in Funcs :
        (/\ last'.op = AddOp(cat) /\ last'.func = func
         /\ HasReturnAnnotation(func) /\ HasNodeParameter(func)
         /\ issubclass(NodeParameterType(func), BaseOf(cat))
         /\ NodeParameterType(func) \in DOMAIN RegistryOf(cat))
        => /\ last'.err = "DuplicateSignatureError"
           /\ RegistryOf(cat)' = RegistryOf(cat)
           /\ CompilerRegistry_retrieve_rule(RegistryOf(cat)', NodeParameterType(func))
                = [err |-> NoErr, val |-> RegistryOf(cat)[NodeParameterType(func)]]

C9_DuplicateSignatureRejected == [][C9_Step]_vars

C9_Witness ==
    /\ last.op = "add_layer_rule" /\ last.func = "sum_fn2"
    /\ last.err = "DuplicateSignatureError"
    /\ retrieve_layer_rule("SumLayer") = [err |-> NoErr, val |-> "sum_fn"]

\* C10: get_compiled_circuit(s) for an s that was never registered, and
\* get_symbolic_circuit(c) for a c that was never registered, raise
\* NotFoundError and return nothing; neither call changes the map.
C10_Step ==
    /\ \A sc \in Circuits :
          (last'.op = "get_compiled_circuit" /\ last'.sc = sc)
          => /\ compiled_circuits' = compiled_circuits
             /\ sc \notin RegisteredSymbolic
                  => last'.err = "NotFoundError" /\ last'.ret_cc = 0
    /\ \A cc \in 1..MaxObjs :
          (last'.op = "get_symbolic_circuit" /\ last'.cc = cc)
          => /\ compiled_circuits' = compiled_circuits
             /\ cc \notin RegisteredCompiled
                  => last'.err = "NotFoundError" /\ last'.ret_name = NoName

C10_LookupNotFound == [][C10_Step]_vars

C10_Witness ==
    /\ last.op = "get_compiled_circuit" /\ last.sc = "s2"
    /\ last.err = "NotFoundError"
    /\ "s1" \in RegisteredSymbolic

\* C11 (no eviction): a circuit that is compiled stays compiled, with the
\* same compiled circuit, across every call of every operation, whether the
\* call returns or raises; so does the reverse association.
C11_Step ==
    \A sc \in Circuits, cc \in 1..MaxObjs :
        /\ (is_compiled(sc) /\ get_compiled_circuit(sc).val = cc)
             => (is_compiled(sc)' /\ get_compiled_circuit(sc)'.val = cc)
        /\ (has_symbolic(cc) /\ get_symbolic_circuit(cc).val = sc)
             => (has_symbolic(cc)' /\ get_symbolic_circuit(cc)'.val = sc)
        /\ <<sc, cc>> \in registered => <<sc, cc>> \in registered'

C11_NoEviction == [][C11_Step]_vars

C11_Witness ==
    /\ last.op = "register_compiled_circuit" /\ last.err = NoErr
    /\ hist.op = "compile" /\ hist.err = NoErr /\ hist.pipeline = 1
    /\ hist.sc # last.sc
    /\ get_compiled_circuit(hist.sc) = [err |-> NoErr, val |-> hist.ret_cc]

\* C12 as stated: the map changes only in a compile call that returns, so
\* every entry was added during a compile(s) that returned its c.
C12_OnlyCompileStep ==
    compiled_circuits' # compiled_circuits
    => last'.op = "compile" /\ last'.err = NoErr

C12_EntriesOnlyByCompile == [][C12_OnlyCompileStep]_vars

\* C12 as amended: the map changes only by gaining one pair (s, c), and only
\* in a compile(s) call that ran the pipeline and returned c, or in a
\* register_compiled_circuit(s, c) call of the client that returned; a call
\* that raises adds nothing.
C12_Step ==
    compiled_circuits' # compiled_circuits
    => \E sc \in Circuits, cc \in 1..MaxObjs :
          /\ \/ /\ last'.op = "compile" /\ last'.sc = sc /\ last'.ret_cc = cc
                /\ last'.pipeline = 1
             \/ /\ last'.op = "register_compiled_circuit"
                /\ last'.sc = sc /\ last'.cc = cc
          /\ last'.err = NoErr
          /\ ~is_compiled(sc) /\ ~has_symbolic(cc)
          /\ compiled_circuits'.bimap.lhs = (sc :> cc) @@ compiled_circuits.bimap.lhs
          /\ compiled_circuits'.bimap.rhs = (cc :> sc) @@ compiled_circuits.bimap.rhs

C12_EntriesByCompileOrRegister == [][C12_Step]_vars

C12_Witness ==
    /\ last.op = "compile" /\ last.err # NoErr /\ ~is_compiled(last.sc)
    /\ hist.op = "register_compiled_circuit" /\ hist.err = NoErr
    /\ is_compiled(hist.sc)

\* C13 (independent registries): an add_*_rule call changes no registry but
\* its own, so what the other two retrieve_*_rule return for every class is
\* as before; a retrieve_*_rule call changes no registry; and none of the
\* six changes the map of compiled circuits.
C13_Step ==
    \A cat \in Categories :
        /\ last'.op = AddOp(cat)
             => /\ \A other \in Categories \ {cat} :
                      /\ RegistryOf(other)' = RegistryOf(other)
                      /\ \A sig \in Signatures :
                            CompilerRegistry_retrieve_rule(RegistryOf(other)', sig)
                              = CompilerRegistry_retrieve_rule(RegistryOf(other), sig)
                /\ compiled_circuits' = compiled_circuits
        /\ last'.op = RetrieveOp(cat)
             => /\ \A any \in Categories : RegistryOf(any)' = RegistryOf(any)
                /\ compiled_circuits' = compiled_circuits

C13_RegistriesIndependent == [][C13_Step]_vars

C13_Witness ==
    /\ last.op = "add_parameter_rule" /\ last.err = NoErr
    /\ layers_registry # <<>> /\ initializers_registry # <<>>
    /\ DOMAIN parameters_registry = {"ConstantParameter"}
    /\ compiled_circuits # CompiledCircuitsMap_init

\* C14 (scenario): with sum_fn registered for SumLayer and prod_fn for
\* ProductLayer, a compile of s1 = ProductLayer(SumLayer, SumLayer) that runs
\* the pipeline invokes a rule on every node after the node's inputs, sum_fn
\* exactly twice and prod_fn exactly once; and the next compile of s1
\* returns the same compiled circuit and invokes no rule.
RuleCount(calls, rule) == Cardinality({i \in 1..Len(calls) : calls[i].rule = rule})

C14_Scenario ==
    (/\ last.op = "compile" /\ last.sc = "s1"
     /\ retrieve_layer_rule("SumLayer") = [err |-> NoErr, val |-> "sum_fn"]
     /\ retrieve_layer_rule("ProductLayer") = [err |-> NoErr, val |-> "prod_fn"])
    => /\ last.err = NoErr
       /\ last.pipeline = 1
            => /\ Len(last.calls) = 3
               /\ RuleCount(last.calls, "sum_fn") = 2
               /\ RuleCount(last.calls, "prod_fn") = 1
               /\ \A i \in 1..Len(last.calls) :
                     /\ CircuitNodes["s1"][last.calls[i].node].inputs
                          \subseteq {last.calls[j].node : j \in 1..(i - 1)}
                     /\ \A j \in 1..(i - 1) : last.calls[j].node # last.calls[i].node
               /\ last.calls[3].node = 1
       /\ (hist.op = "compile" /\ hist.sc = "s1" /\ hist.err = NoErr)
            => /\ last.pipeline = 0
               /\ last.calls = <<>>
               /\ last.retrievals = 0
               /\ last.ret_cc = hist.ret_cc

C14_Witness ==
    /\ last.op = "compile" /\ last.sc = "s1" /\ last.err = NoErr
    /\ last.pipeline = 0 /\ last.calls = <<>>
    /\ hist.op = "compile" /\ hist.sc = "s1" /\ hist.err = NoErr
    /\ hist.pipeline = 1 /\ hist.ret_cc = last.ret_cc
    /\ retrieve_layer_rule("SumLayer").val = "sum_fn"
    /\ retrieve_layer_rule("ProductLayer").val = "prod_fn"


\* The retrieve method of a category.
RetrieveRule(cat, signature) ==
    CASE cat = "layer" -> retrieve_layer_rule(signature)
      [] cat = "parameter" -> retrieve_parameter_rule(signature)
      [] cat = "initializer" -> retrieve_initializer_rule(signature)

\* C16 (add/retrieve round trip): an add_*_rule(f) that returns was given a
\* rule with a typed parameter; with T the declared type of the last one,
\* retrieve_*_rule(T) of the same category raised CompilationRuleNotFound
\* before the call and returns f after it.
C16_Step ==
    \A cat \in Categories, func \in Funcs :
        (last'.op = AddOp(cat) /\ last'.func = func /\ last'.err = NoErr)
        => /\ HasNodeParameter(func)
           /\ RetrieveRule(cat, NodeParameterType(func)).err = "CompilationRuleNotFound"
           /\ RetrieveRule(cat, NodeParameterType(func))' = [err |-> NoErr, val |-> func]

C16_AddRetrieveRoundTrip == [][C16_Step]_vars

C16_Witness ==
    /\ last.op = "add_layer_rule" /\ last.func = "layer_fn" /\ last.err = NoErr
    /\ hist.op = "compile" /\ hist.sc = "s1" /\ hist.err = "CompilationRuleNotFound"
    /\ retrieve_layer_rule("Layer") = [err |-> NoErr, val |-> "layer_fn"]
    /\ retrieve_layer_rule("SumLayer").err = "CompilationRuleNotFound"


\* C18 (annotations are required): add_*_rule with a rule that has no return
\* annotation raises the KeyError of `del ann["return"]`, and with a rule
\* whose only annotation is the return annotation the IndexError of
\* `args[-1]`; neither call ends in InvalidRuleError, and the registry is
\* left as it was.
C18_Step ==
    \A cat \in Categories, func \in Funcs :
        (/\ last'.op = AddOp(cat) /\ last'.func = func
         /\ (~HasReturnAnnotation(func) \/ ~HasNodeParameter(func)))
        => /\ last'.err = IF ~HasReturnAnnotation(func) THEN "KeyError"
                          ELSE "IndexError"
           /\ RegistryOf(cat)' = RegistryOf(cat)

\* Both methods of each registry class raise that error themselves.
C18_Methods ==
    \A func \in Funcs :
        (~HasReturnAnnotation(func) \/ ~HasNodeParameter(func))
        => LET e == IF ~HasReturnAnnotation(func) THEN "KeyError" ELSE "IndexError"
           IN  /\ CompilerLayerRegistry_validate_rule_function(func).err = e
               /\ CompilerLayerRegistry_retrieve_signature(func).err = e
               /\ CompilerParameterRegistry_validate_rule_function(func).err = e
               /\ CompilerParameterRegistry_retrieve_signature(func).err = e
               /\ CompilerInitializerRegistry_validate_rule_function(func).err = e
               /\ CompilerInitializerRegistry_retrieve_signature(func).err = e

C18_AnnotationsRequired == []C18_Methods /\ [][C18_Step]_vars

C18_Witness ==
    /\ last.op = "add_layer_rule" /\ last.func = "onlyret_fn"
    /\ last.err = "IndexError"
    /\ DOMAIN layers_registry = {"SumLayer"}
    /\ hist.op = "compile" /\ hist.err = "CompilationRuleNotFound"


\* C17 (compile never writes the map), with a pipeline that returns its
\* result unregistered: a compile(s) call that returns leaves the map as it
\* was, so s is not compiled after it, and what it returns is the circuit
\* the pipeline built; a step changes the map only if it is a
\* register_compiled_circuit call; and a compile(s) that follows a compile(s)
\* which ran the pipeline, with no registration between, runs it again.
C17_Step ==
    /\ \A sc \in Circuits :
           (last'.op = "compile" /\ last'.sc = sc)
           => /\ compiled_circuits' = compiled_circuits
              /\ (~is_compiled(sc) /\ last'.err = NoErr)
                 => /\ last'.pipeline = 1
                    /\ last'.ret_cc = nextObj /\ nextObj' = nextObj + 1
                    /\ ~is_compiled(sc)'
    /\ compiled_circuits' # compiled_circuits
       => last'.op = "register_compiled_circuit"

C17_Again ==
    (/\ last.op = "compile" /\ hist.op = "compile" /\ hist.sc = last.sc
     /\ hist.pipeline = 1)
    => last.pipeline = 1

C17_CompileNeverWrites == []C17_Again /\ [][C17_Step]_vars

C17_Witness ==
    /\ last.op = "compile" /\ last.sc = "s1" /\ last.err = NoErr
    /\ last.pipeline = 1 /\ last.ret_cc = 2
    /\ hist.op = "compile" /\ hist.sc = "s1" /\ hist.err = NoErr
    /\ hist.pipeline = 1 /\ hist.ret_cc = 1
    /\ ~is_compiled("s1")


\* C15 (unlocked callers race): a compile call ends in an error only as the
\* loser of a race, with AlreadyRegisteredError, after another caller's
\* pipeline ran for the same circuit and registered first; when two callers
\* have both run the pipeline for one circuit, one of them returns its own
\* circuit and the other fails with AlreadyRegisteredError; and the pipeline
\* runs twice for a circuit only if two callers had both found it uncompiled
\* before either registered, so never when the calls follow one another.
C15_Race ==
    /\ \A t \in Callers :
           (callers[t].pc = "done" /\ callers[t].err # NoErr)
           => /\ callers[t].err = "AlreadyRegisteredError"
              /\ callers[t].sc \in interleaved
              /\ pipeline_runs[callers[t].sc] >= 2
              /\ is_compiled(callers[t].sc)
              /\ get_compiled_circuit(callers[t].sc).val # callers[t].cc
    /\ \A t \in Callers, u \in Callers :
           (/\ t # u
            /\ callers[t].pc = "done" /\ callers[u].pc = "done"
            /\ callers[t].sc = callers[u].sc
            /\ callers[t].cc # 0 /\ callers[u].cc # 0)
           => \/ callers[t].err = NoErr /\ callers[u].err = "AlreadyRegisteredError"
              \/ callers[u].err = NoErr /\ callers[t].err = "AlreadyRegisteredError"
    /\ \A sc \in Circuits : pipeline_runs[sc] >= 2 => sc \in interleaved

C15_Witness ==
    /\ callers["A"].pc = "done" /\ callers["A"].sc = "s1"
    /\ callers["A"].err = "AlreadyRegisteredError" /\ callers["A"].cc = 1
    /\ callers["B"].pc = "done" /\ callers["B"].sc = "s1"
    /\ callers["B"].err = NoErr /\ callers["B"].ret = 2
    /\ pipeline_runs["s1"] = 2
    /\ get_compiled_circuit("s1").val = 2

====
